---------------------------- MODULE Spec2Model ----------------------------
(***************************************************************************)
(* ANSI/IES TM-30-18 colour fidelity index                                 *)
(* (src/colour/quality/tm3018.py): colour_fidelity_index_ANSIIESTM3018 and *)
(* averages_area, as a state machine over one call; and the Iridas .cube   *)
(* writer and reader (src/colour/io/luts/iridas_cube.py), as a write       *)
(* followed by a read of the file written.                                 *)
(*                                                                         *)
(* Numbers.  The code computes in IEEE doubles.  The model computes the    *)
(* same expressions exactly: a float is a record                           *)
(*     [k |-> "fin", n, d, r]   the real number (n/d) * sqrt(r),           *)
(*                              d > 0, gcd(n,d) = 1, r >= 1 squarefree     *)
(*     [k |-> "inf", n = 1 or -1]   +infinity / -infinity                  *)
(*     [k |-> "nan"]                not-a-number                           *)
(* with the IEEE rules for division by zero, for the mean of nothing and   *)
(* for NaN.  Rounding error and the sign of zero are not modelled.         *)
(***************************************************************************)
EXTENDS Integers, Sequences, FiniteSets

-----------------------------------------------------------------------------
(* Exact arithmetic standing for numpy's float64 operations.               *)

Abs(i) == IF i < 0 THEN -i ELSE i

Sign(i) == IF i < 0 THEN -1 ELSE IF i = 0 THEN 0 ELSE 1

RECURSIVE Gcd(_, _)
Gcd(a, b) == IF b = 0 THEN a ELSE Gcd(b, a % b)

NaN == [k |-> "nan", n |-> 0, d |-> 1, r |-> 1]

Inf(s) == [k |-> "inf", n |-> s, d |-> 1, r |-> 1]

\* (n/d) * sqrt(r) in lowest terms; d # 0.
Surd(n, d, r) ==
    LET g == Gcd(Abs(n), Abs(d))
        s == Sign(d)
    IN  [k |-> "fin", n |-> (s * n) \div g, d |-> (s * d) \div g,
         r |-> IF n = 0 THEN 1 ELSE r]

Rat(n, d) == Surd(n, d, 1)

Float(i) == Rat(i, 1)

IsNaN(x) == x.k = "nan"

IsFinite(x) == x.k = "fin"

IsZero(x) == x.k = "fin" /\ x.n = 0

\* IEEE ==: NaN is equal to nothing, itself included.
FEq(x, y) == ~IsNaN(x) /\ ~IsNaN(y) /\ x = y

FNeg(x) == IF IsNaN(x) THEN NaN ELSE [x EXCEPT !.n = -x.n]

\* x + y; finite operands are rationals (r = 1) or share their radicand.
FAdd(x, y) ==
    IF IsNaN(x) \/ IsNaN(y) THEN NaN
    ELSE IF x.k = "inf" /\ y.k = "inf" THEN (IF x.n = y.n THEN x ELSE NaN)
    ELSE IF x.k = "inf" THEN x
    ELSE IF y.k = "inf" THEN y
    ELSE IF x.n = 0 THEN y
    ELSE IF y.n = 0 THEN x
    ELSE Surd(x.n * y.d + y.n * x.d, x.d * y.d, x.r)

FSub(x, y) == FAdd(x, FNeg(y))

\* x * y; at most one finite operand has a radicand other than 1.
FMul(x, y) ==
    IF IsNaN(x) \/ IsNaN(y) THEN NaN
    ELSE IF x.k = "inf" \/ y.k = "inf"
         THEN (IF x.n = 0 \/ y.n = 0 THEN NaN ELSE Inf(Sign(x.n) * Sign(y.n)))
    ELSE Surd(x.n * y.n, x.d * y.d, x.r * y.r)

\* x / y with numpy's float64 rules: 0/0 and inf/inf are NaN, x/0 is +-inf.
\* A finite x is a rational; y may carry a radicand:
\* x / (q sqrt(r)) = (x / (q r)) sqrt(r).
FDiv(x, y) ==
    IF IsNaN(x) \/ IsNaN(y) THEN NaN
    ELSE IF y.k = "inf" THEN (IF x.k = "inf" THEN NaN ELSE Float(0))
    ELSE IF x.k = "inf" THEN Inf(x.n * (IF y.n < 0 THEN -1 ELSE 1))
    ELSE IF y.n = 0 THEN (IF x.n = 0 THEN NaN ELSE Inf(Sign(x.n)))
    ELSE Surd(x.n * y.d, x.d * y.n * y.r, y.r)

\* The largest f with f*f dividing m (m >= 1), searching upwards from f, a
\* stretch of candidates at a time.
RECURSIVE SquarePart(_, _)
SquarePart(m, f) ==
    LET stretch == f .. (f + 63)
        hits == {g \in stretch : g * g <= m /\ m % (g * g) = 0}
        least == CHOOSE g \in hits : \A h \in hits : g <= h
    IN  IF f * f > m THEN 1
        ELSE IF hits # {} THEN least * SquarePart(m \div (least * least), least)
        ELSE SquarePart(m, f + 64)

\* sqrt(x) of a rational x: sqrt(n/d) = (fn / (fd * gd)) * sqrt(gn * gd)
\* where n = fn^2 * gn and d = fd^2 * gd with gn, gd squarefree.
FSqrt(x) ==
    IF IsNaN(x) THEN NaN
    ELSE IF x.k = "inf" THEN (IF x.n > 0 THEN x ELSE NaN)
    ELSE IF x.n < 0 THEN NaN
    ELSE IF x.n = 0 THEN Float(0)
    ELSE LET fn == SquarePart(x.n, 2)
             fd == SquarePart(x.d, 2)
             gn == x.n \div (fn * fn)
             gd == x.d \div (fd * fd)
         IN  Surd(fn, fd * gd, gn * gd)

\* np.floor of a rational.
FFloor(x) == IF IsFinite(x) THEN Float(x.n \div x.d) ELSE x


-----------------------------------------------------------------------------
(* numpy arrays are functions on 0..N-1, so that indices are the code's.   *)

ALen(a) == Cardinality(DOMAIN a)

ArrayOf(seq) == [i \in 0 .. (Len(seq) - 1) |-> seq[i + 1]]

\* a[idx] for an index array idx (numpy fancy indexing).
Take(a, idx) == [j \in DOMAIN idx |-> a[idx[j]]]

\* np.where(mask)[0]: the indices at which mask holds, ascending.
Where(mask) ==
    ArrayOf(SelectSeq([j \in 1 .. ALen(mask) |-> j - 1], LAMBDA i : mask[i]))

RECURSIVE SumUpTo(_, _)
SumUpTo(a, m) == IF m = 0 THEN Float(0) ELSE FAdd(SumUpTo(a, m - 1), a[m - 1])

\* np.sum of a one-dimensional array.
Sum(a) == SumUpTo(a, ALen(a))

\* np.mean of a one-dimensional array: sum / count, NaN for no element.
Mean(a) == FDiv(Sum(a), Float(ALen(a)))

\* np.mean(points, axis=0) of an array of (a', b') pairs.
MeanAxis0(points) ==
    [c \in 0 .. 1 |-> Mean([j \in DOMAIN points |-> points[j][c]])]

\* a[1:]
Tail1(a) == [j \in 0 .. (ALen(a) - 2) |-> a[j + 1]]

-----------------------------------------------------------------------------
(* Constants of the method.                                                *)

NumBins == 16

BinWidth == Rat(45, 2)      \* 22.5 degrees

Percent == 100

BinIndices == 0 .. (NumBins - 1)

\* The unit vector bisecting hue bin i, (cos, sin) of 22.5*i + 11.25 degrees.
\* cos and sin of these angles are irrational; the model takes the nearest
\* rational points of the unit circle with small terms, <<p, q, h>> standing
\* for (p/h, q/h) with p*p + q*q = h*h: 11.42, 33.40, 56.60 and 78.58 degrees
\* for 11.25, 33.75, 56.25 and 78.75, turned by quarter turns.
QuadrantOne == << <<99, 20, 101>>, <<91, 60, 109>>, <<60, 91, 109>>, <<20, 99, 101>> >>

BisectorTriple(i) ==
    LET t == QuadrantOne[(i % 4) + 1]
        turn == (i \div 4) % 4
    IN  CASE turn = 0 -> << t[1], t[2], t[3] >>
          [] turn = 1 -> << -t[2], t[1], t[3] >>
          [] turn = 2 -> << -t[1], -t[2], t[3] >>
          [] turn = 3 -> << t[2], -t[1], t[3] >>

cosines == [i \in BinIndices |-> Rat(BisectorTriple(i)[1], BisectorTriple(i)[3])]

sines == [i \in BinIndices |-> Rat(BisectorTriple(i)[2], BisectorTriple(i)[3])]


-----------------------------------------------------------------------------
(* The inputs.  A test spectral distribution is identified by the          *)
(* colorimetry the base computation derives from it: a base population     *)
(* with one sample on the bisector of every hue bin but `hole`, followed   *)
(* by up to MaxExtra free samples.  Hue angles (the reference JMh[2]) and  *)
(* a'b' coordinates (Jpapbp[1:]) are separate fields of the upstream data  *)
(* and are enumerated separately.  The free samples include hue angles on  *)
(* a bin boundary, just below 360, at 360 and below 0.                     *)

MaxRho == 1       \* base reference points lie rho = 0 .. MaxRho hypotenuses out

\* The bin the base population leaves empty; -1 for none.
Holes == {-1, 0}

MaxExtra == 2     \* free samples after the base population

ShiftKinds ==
    {"same", "radial_out", "radial_in", "tangent_pos", "tangent_neg", "oblique"}

\* test - reference of a base sample of bin i, as an integer vector.
ShiftVector(kind, i) ==
    LET t == BisectorTriple(i)
    IN  CASE kind = "same" -> << 0, 0 >>
          [] kind = "radial_out" -> << t[1], t[2] >>
          [] kind = "radial_in" -> << -t[1], -t[2] >>
          [] kind = "tangent_pos" -> << -t[2], t[1] >>
          [] kind = "tangent_neg" -> << t[2], -t[1] >>
          [] kind = "oblique" -> << 3, 1 >>

\* reference a'b' of the base sample of bin i.
BasePoint(layout, rho, i) ==
    IF layout = "ring"
    THEN << rho * BisectorTriple(i)[1], rho * BisectorTriple(i)[2] >>
    ELSE << rho, 0 >>

\* One sample of the upstream data: h the reference hue angle in degrees,
\* r and t the reference and test a'b', dE its colour difference.
BaseSample(b, i) ==
    LET r == BasePoint(b.layout, b.rho, i)
        v == ShiftVector(b.shift, i)
    IN  [h |-> Rat(90 * i + 45, 4), r |-> r,
         t |-> << r[1] + v[1], r[2] + v[2] >>, dE |-> i % 3]

ExtraSamples ==
    << [h |-> Rat(0, 1),   r |-> << 2, 0 >>,  t |-> << 3, 1 >>,  dE |-> 2],
       [h |-> Rat(45, 2),  r |-> << 1, 1 >>,  t |-> << 1, 1 >>,  dE |-> 0],
       [h |-> Rat(719, 2), r |-> << 4, -2 >>, t |-> << 3, -1 >>, dE |-> 4],
       [h |-> Rat(360, 1), r |-> << 5, 0 >>,  t |-> << 5, 1 >>,  dE |-> 1],
       [h |-> Rat(-1, 2),  r |-> << 6, -1 >>, t |-> << 6, -1 >>, dE |-> 3] >>

\* The free samples of an input: up to MaxExtra of ExtraSamples, repetitions
\* allowed, listed in the order of ExtraSamples.
ExtraChoices ==
    { e \in UNION {[1 .. m -> 1 .. Len(ExtraSamples)] : m \in 0 .. MaxExtra} :
        \A j \in 1 .. (Len(e) - 1) : e[j] <= e[j + 1] }

\* "ring": the reference point of bin i at radius rho on the bin's bisector;
\* "point": every reference point at (1, 0), a polygon of no area;
\* "none": no base population.
Bases ==
    {[layout |-> "none", rho |-> 0, shift |-> "same", hole |-> -1]}
    \cup [layout : {"ring"}, rho : 0 .. MaxRho, shift : ShiftKinds,
          hole : Holes]
    \cup [layout : {"point"}, rho : {1}, shift : ShiftKinds, hole : {-1}]

BaseBins(b) ==
    IF b.layout = "none" THEN <<>>
    ELSE SelectSeq([j \in 1 .. NumBins |-> j - 1], LAMBDA i : i # b.hole)

\* The samples of input sd, in order.
Samples(sd) ==
    ArrayOf([j \in 1 .. Len(BaseBins(sd.base)) |->
                BaseSample(sd.base, BaseBins(sd.base)[j])]
            \o [j \in 1 .. Len(sd.extras) |-> ExtraSamples[sd.extras[j]]])

Inputs ==
    { sd \in [base : Bases, extras : ExtraChoices] : ALen(Samples(sd)) >= 1 }

\* The hue angle given to the test rendering of a sample (never read by the
\* method): a fixed turn away from the reference's.
TestHueTurn == Rat(45, 2)

\* delta_E_to_R_f of colour.quality.cfi2017, uninterpreted: the index of a
\* colour difference x.
delta_E_to_R_f(x) == [R_f_of |-> x]

\* colour_fidelity_index_CIE2017(sd_test, additional_data): the base
\* computation's scalar R_f, or its specification.
colour_fidelity_index_CIE2017(sd, with_data) ==
    LET samples == Samples(sd)
        dEs == [j \in DOMAIN samples |-> Float(samples[j].dE)]
        Rf == delta_E_to_R_f(Mean(dEs))
        tcs(j, which) ==
            [JMh |-> ArrayOf(<< Float(50), Float(10),
                                IF which = 0
                                THEN FAdd(samples[j].h, TestHueTurn)
                                ELSE samples[j].h >>),
             Jpapbp |-> LET ab == IF which = 0 THEN samples[j].t
                                  ELSE samples[j].r
                        IN  ArrayOf(<< Float(50), Float(ab[1]), Float(ab[2]) >>)]
    IN  IF ~with_data THEN Rf
        ELSE [name |-> [field |-> "name", of |-> sd],
              sd_reference |-> [field |-> "sd_reference", of |-> sd],
              R_f |-> Rf,
              R_s |-> [j \in DOMAIN dEs |-> delta_E_to_R_f(dEs[j])],
              CCT |-> [field |-> "CCT", of |-> sd],
              D_uv |-> [field |-> "D_uv", of |-> sd],
              colorimetry_data |->
                  [which \in 0 .. 1 |-> [j \in DOMAIN samples |-> tcs(j, which)]],
              delta_E_s |-> dEs]

-----------------------------------------------------------------------------
(* The call.                                                               *)

VARIABLES
    pc,                 \* position in colour_fidelity_index_ANSIIESTM3018
    sd_test,            \* argument
    additional_data,    \* argument
    specification,      \* locals, <<>> while unbound
    bins,
    averages_test,
    averages_reference,
    R_g,
    R_fs,
    average_norms,
    R_cs,
    R_hs,
    result,             \* the returned value, <<>> before the return
    polygon,            \* averages_area applied on its own: its argument,
    called,             \*   which of the two calls were made,
    area_forward,       \*   averages_area(polygon)
    area_reversed,      \*   averages_area(polygon in reverse order)
    sd_other,           \* the call made twice: the first call's argument
    local_other,        \*   and the specification it returned
    LUT,                \* write_LUT_IridasCube: its arguments LUT
    decimals,           \*   and decimals,
    cube_file,          \*   the text of the file at path,
    LUT_read            \*   read_LUT_IridasCube(path)

pair == << sd_other, local_other >>

cube == << LUT, decimals, cube_file, LUT_read >>

harness == << polygon, called, area_forward, area_reversed, pair, cube >>

vars ==
    << pc, sd_test, additional_data, specification, bins, averages_test,
       averages_reference, R_g, R_fs, average_norms, R_cs, R_hs, result,
       harness >>

Unbound == <<>>

Init ==
    /\ pc = "start"
    /\ sd_test \in Inputs
    /\ additional_data = FALSE
    /\ specification = Unbound
    /\ bins = Unbound
    /\ averages_test = Unbound
    /\ averages_reference = Unbound
    /\ R_g = Unbound
    /\ R_fs = Unbound
    /\ average_norms = Unbound
    /\ R_cs = Unbound
    /\ R_hs = Unbound
    /\ result = Unbound
    /\ polygon = Unbound
    /\ called = {}
    /\ area_forward = Unbound
    /\ area_reversed = Unbound
    /\ sd_other = Unbound
    /\ local_other = Unbound
    /\ LUT = Unbound
    /\ decimals = 0
    /\ cube_file = Unbound
    /\ LUT_read = Unbound

\* averages_area without the term closing the polygon, over range(N - 1).
averages_areaOpen(averages) ==
    LET N == ALen(averages)
        triangle_areas ==
            [i \in 0 .. (N - 2) |->
                LET u == averages[i]
                    v == averages[i + 1]
                IN  FDiv(FSub(FMul(u[0], v[1]), FMul(u[1], v[0])), Float(2))]
    IN  Sum(triangle_areas)

\* averages_area with the two products added instead of subtracted.
averages_areaSymmetric(averages) ==
    LET N == ALen(averages)
        triangle_areas ==
            [i \in 0 .. (N - 1) |->
                LET u == averages[i]
                    v == averages[(i + 1) % N]
                IN  FDiv(FAdd(FMul(u[0], v[1]), FMul(u[1], v[0])), Float(2))]
    IN  Sum(triangle_areas)

\* averages_area(averages): the shoelace sum of the closed polygon.
averages_area(averages) ==
    LET N == ALen(averages)
        triangle_areas ==
            [i \in 0 .. (N - 1) |->
                LET u == averages[i]
                    v == averages[(i + 1) % N]
                IN  FDiv(FSub(FMul(u[0], v[1]), FMul(u[1], v[0])), Float(2))]
    IN  Sum(triangle_areas)

\* Entry with the test of the flag inverted.
EntryInverted ==
    /\ pc = "start"
    /\ \E flag \in BOOLEAN :
        /\ additional_data' = flag
        /\ IF flag
           THEN /\ result' = colour_fidelity_index_CIE2017(sd_test, FALSE)
                /\ pc' = "done"
                /\ UNCHANGED specification
           ELSE /\ specification' = colour_fidelity_index_CIE2017(sd_test, TRUE)
                /\ pc' = "bins"
                /\ UNCHANGED result
    /\ UNCHANGED harness
    /\ UNCHANGED << sd_test, bins, averages_test, averages_reference, R_g, R_fs,
                    average_norms, R_cs, R_hs >>

\* Lines 135-141: without additional_data the base computation's scalar is
\* returned at once; otherwise its specification is fetched.
Entry ==
    /\ pc = "start"
    /\ \E flag \in BOOLEAN :
        /\ additional_data' = flag
        /\ IF ~flag
           THEN /\ result' = colour_fidelity_index_CIE2017(sd_test, FALSE)
                /\ pc' = "done"
                /\ UNCHANGED specification
           ELSE /\ specification' = colour_fidelity_index_CIE2017(sd_test, TRUE)
                /\ pc' = "bins"
                /\ UNCHANGED result
    /\ UNCHANGED harness
    /\ UNCHANGED << sd_test, bins, averages_test, averages_reference, R_g, R_fs,
                    average_norms, R_cs, R_hs >>

\* HueBins reading the hue angles of the test rendering, colorimetry_data[0].
HueBinsOfTest(spec) ==
    LET quotient ==
            [j \in DOMAIN spec.colorimetry_data[0] |->
                FFloor(FDiv(spec.colorimetry_data[0][j].JMh[2], BinWidth))]
    IN  [b \in 0 .. (NumBins - 1) |->
            Where([j \in DOMAIN quotient |-> FEq(quotient[j], Float(b))])]

\* HueBins with the quotient wrapped into 0 .. 15 by modulo.
HueBinsWrapped(spec) ==
    LET quotient ==
            [j \in DOMAIN spec.colorimetry_data[1] |->
                LET q == FFloor(FDiv(spec.colorimetry_data[1][j].JMh[2], BinWidth))
                IN  IF IsFinite(q) THEN Float(q.n % NumBins) ELSE q]
    IN  [b \in 0 .. (NumBins - 1) |->
            Where([j \in DOMAIN quotient |-> FEq(quotient[j], Float(b))])]

\* Lines 143-150: the bin of a sample is floor(reference hue / 22.5); bin b
\* holds the indices whose quotient equals b.
HueBins(spec) ==
    LET quotient ==
            [j \in DOMAIN spec.colorimetry_data[1] |->
                FFloor(FDiv(spec.colorimetry_data[1][j].JMh[2], BinWidth))]
    IN  [b \in 0 .. (NumBins - 1) |->
            Where([j \in DOMAIN quotient |-> FEq(quotient[j], Float(b))])]

HueBinner ==
    /\ pc = "bins"
    /\ bins' = HueBins(specification)
    /\ pc' = "averages"
    /\ UNCHANGED harness
    /\ UNCHANGED << sd_test, additional_data, specification, averages_test,
                    averages_reference, R_g, R_fs, average_norms, R_cs, R_hs,
                    result >>

\* BinAverages giving an empty bin the zero vector.
BinAveragesZeroDefault(spec, which, bs) ==
    LET apbp == [j \in DOMAIN spec.colorimetry_data[which] |->
                    Tail1(spec.colorimetry_data[which][j].Jpapbp)]
    IN  [idx \in DOMAIN bs |->
            IF ALen(bs[idx]) = 0 THEN [c \in 0 .. 1 |-> Float(0)]
            ELSE MeanAxis0(Take(apbp, bs[idx]))]

\* BinAverages dividing the sum over a bin by the number of all samples.
BinAveragesOverAll(spec, which, bs) ==
    LET apbp == [j \in DOMAIN spec.colorimetry_data[which] |->
                    Tail1(spec.colorimetry_data[which][j].Jpapbp)]
    IN  [idx \in DOMAIN bs |->
            [c \in 0 .. 1 |->
                FDiv(Sum([j \in DOMAIN bs[idx] |-> apbp[bs[idx][j]][c]]),
                     Float(ALen(apbp)))]]

\* Lines 152-163: per-bin means of the test and the reference a'b'.
BinAverages(spec, which, bs) ==
    LET apbp == [j \in DOMAIN spec.colorimetry_data[which] |->
                    Tail1(spec.colorimetry_data[which][j].Jpapbp)]
    IN  [idx \in DOMAIN bs |-> MeanAxis0(Take(apbp, bs[idx]))]

BinAverager ==
    /\ pc = "averages"
    /\ averages_test' = BinAverages(specification, 0, bins)
    /\ averages_reference' = BinAverages(specification, 1, bins)
    /\ pc' = "gamut"
    /\ UNCHANGED harness
    /\ UNCHANGED << sd_test, additional_data, specification, bins, R_g, R_fs,
                    average_norms, R_cs, R_hs, result >>

\* GamutIndex without the scale of 100.
GamutIndexUnscaled(test, reference) ==
    FDiv(averages_area(test), averages_area(reference))

\* Lines 165-168.
GamutIndex(test, reference) ==
    FMul(Float(Percent), FDiv(averages_area(test), averages_area(reference)))

GamutAreaEstimator ==
    /\ pc = "gamut"
    /\ R_g' = GamutIndex(averages_test, averages_reference)
    /\ pc' = "fidelity"
    /\ UNCHANGED harness
    /\ UNCHANGED << sd_test, additional_data, specification, bins, averages_test,
                    averages_reference, R_fs, average_norms, R_cs, R_hs, result >>

\* LocalFidelities over range(15).
LocalFidelitiesShort(spec, bs) ==
    LET bin_delta_E_s ==
            [i \in 0 .. (NumBins - 2) |-> Mean(Take(spec.delta_E_s, bs[i]))]
    IN  [i \in DOMAIN bin_delta_E_s |-> delta_E_to_R_f(bin_delta_E_s[i])]

\* Lines 170-174.
LocalFidelities(spec, bs) ==
    LET bin_delta_E_s ==
            [i \in 0 .. (NumBins - 1) |-> Mean(Take(spec.delta_E_s, bs[i]))]
    IN  [i \in DOMAIN bin_delta_E_s |-> delta_E_to_R_f(bin_delta_E_s[i])]

LocalFidelity ==
    /\ pc = "fidelity"
    /\ R_fs' = LocalFidelities(specification, bins)
    /\ pc' = "shifts"
    /\ UNCHANGED harness
    /\ UNCHANGED << sd_test, additional_data, specification, bins, averages_test,
                    averages_reference, R_g, average_norms, R_cs, R_hs, result >>

\* Line 181: np.linalg.norm(averages_reference, axis=1).
Norms(reference) ==
    [i \in DOMAIN reference |->
        FSqrt(FAdd(FMul(reference[i][0], reference[i][0]),
                   FMul(reference[i][1], reference[i][1])))]

a_deltas(test, reference) ==
    [i \in DOMAIN test |-> FSub(test[i][0], reference[i][0])]

b_deltas(test, reference) ==
    [i \in DOMAIN test |-> FSub(test[i][1], reference[i][1])]

\* Line 186.
ChromaShifts(test, reference, norms) ==
    LET a == a_deltas(test, reference)
        b == b_deltas(test, reference)
    IN  [i \in DOMAIN norms |->
            FDiv(FMul(Float(Percent),
                      FAdd(FMul(a[i], cosines[i]), FMul(b[i], sines[i]))),
                 norms[i])]

\* HueShifts scaled by 100 like the chroma shifts.
HueShiftsScaled(test, reference, norms) ==
    LET a == a_deltas(test, reference)
        b == b_deltas(test, reference)
    IN  [i \in DOMAIN norms |->
            FDiv(FMul(Float(Percent),
                      FAdd(FMul(FNeg(a[i]), sines[i]), FMul(b[i], cosines[i]))),
                 norms[i])]

\* Line 189.
HueShifts(test, reference, norms) ==
    LET a == a_deltas(test, reference)
        b == b_deltas(test, reference)
    IN  [i \in DOMAIN norms |->
            FDiv(FAdd(FMul(FNeg(a[i]), sines[i]), FMul(b[i], cosines[i])),
                 norms[i])]

LocalShifts ==
    /\ pc = "shifts"
    /\ average_norms' = Norms(averages_reference)
    /\ R_cs' = ChromaShifts(averages_test, averages_reference, average_norms')
    /\ R_hs' = HueShifts(averages_test, averages_reference, average_norms')
    /\ pc' = "return"
    /\ UNCHANGED harness
    /\ UNCHANGED << sd_test, additional_data, specification, bins, averages_test,
                    averages_reference, R_g, R_fs, result >>

\* The constructor called with sd_test and sd_reference in each other's place.
ColourQuality_Specification_Swapped ==
    [name |-> specification.name,
     sd_test |-> specification.sd_reference,
     sd_reference |-> sd_test,
     R_f |-> specification.R_f,
     R_s |-> specification.R_s,
     CCT |-> specification.CCT,
     D_uv |-> specification.D_uv,
     colorimetry_data |-> specification.colorimetry_data,
     R_g |-> R_g,
     bins |-> bins,
     averages_test |-> averages_test,
     averages_reference |-> averages_reference,
     average_norms |-> average_norms,
     R_fs |-> R_fs,
     R_cs |-> R_cs,
     R_hs |-> R_hs]

\* Lines 191-208.
ColourQuality_Specification_ANSIIESTM3018 ==
    [name |-> specification.name,
     sd_test |-> sd_test,
     sd_reference |-> specification.sd_reference,
     R_f |-> specification.R_f,
     R_s |-> specification.R_s,
     CCT |-> specification.CCT,
     D_uv |-> specification.D_uv,
     colorimetry_data |-> specification.colorimetry_data,
     R_g |-> R_g,
     bins |-> bins,
     averages_test |-> averages_test,
     averages_reference |-> averages_reference,
     average_norms |-> average_norms,
     R_fs |-> R_fs,
     R_cs |-> R_cs,
     R_hs |-> R_hs]

Return ==
    /\ pc = "return"
    /\ result' = ColourQuality_Specification_ANSIIESTM3018
    /\ pc' = "done"
    /\ UNCHANGED harness
    /\ UNCHANGED << sd_test, additional_data, specification, bins, averages_test,
                    averages_reference, R_g, R_fs, average_norms, R_cs, R_hs >>

Next ==
    \/ Entry
    \/ HueBinner
    \/ BinAverager
    \/ GamutAreaEstimator
    \/ LocalFidelity
    \/ LocalShifts
    \/ Return

Spec == Init /\ [][Next]_vars


-----------------------------------------------------------------------------
(* averages_area on its own: a 16-point polygon, the function applied to   *)
(* it and to the same points in reverse order.                             *)

MaxRadius == 2    \* the polygons start from the ring of radius 1 .. MaxRadius

Point(x, y) == ArrayOf(<< x, y >>)

PointPool ==
    { Point(Float(0), Float(0)), Point(Rat(7, 2), Float(-3)),
      Point(Float(-40), Rat(55, 3)) }

Ring(rho) ==
    [i \in BinIndices |->
        Point(Float(rho * BisectorTriple(i)[1]), Float(rho * BisectorTriple(i)[2]))]

\* The ring of radius rho with the vertices i and j moved to p and q.
Polygons ==
    { [Ring(rho) EXCEPT ![i] = p, ![j] = q] :
        rho \in 1 .. MaxRadius, i \in BinIndices, j \in BinIndices,
        p \in PointPool, q \in PointPool }

Reversed(points) ==
    [i \in DOMAIN points |-> points[ALen(points) - 1 - i]]

InitArea ==
    /\ pc = "area"
    /\ sd_test = Unbound
    /\ additional_data = FALSE
    /\ specification = Unbound
    /\ bins = Unbound
    /\ averages_test = Unbound
    /\ averages_reference = Unbound
    /\ R_g = Unbound
    /\ R_fs = Unbound
    /\ average_norms = Unbound
    /\ R_cs = Unbound
    /\ R_hs = Unbound
    /\ result = Unbound
    /\ polygon \in Polygons
    /\ called = {}
    /\ area_forward = Unbound
    /\ area_reversed = Unbound
    /\ sd_other = Unbound
    /\ local_other = Unbound
    /\ LUT = Unbound
    /\ decimals = 0
    /\ cube_file = Unbound
    /\ LUT_read = Unbound

CallForward ==
    /\ pc = "area"
    /\ "forward" \notin called
    /\ area_forward' = averages_area(polygon)
    /\ called' = called \cup {"forward"}
    /\ UNCHANGED << pc, sd_test, additional_data, specification, bins,
                    averages_test, averages_reference, R_g, R_fs, average_norms,
                    R_cs, R_hs, result, polygon, area_reversed >>
    /\ UNCHANGED << pair, cube >>

CallReversed ==
    /\ pc = "area"
    /\ "reversed" \notin called
    /\ area_reversed' = averages_area(Reversed(polygon))
    /\ called' = called \cup {"reversed"}
    /\ UNCHANGED << pc, sd_test, additional_data, specification, bins,
                    averages_test, averages_reference, R_g, R_fs, average_norms,
                    R_cs, R_hs, result, polygon, area_forward >>
    /\ UNCHANGED << pair, cube >>

NextArea == CallForward \/ CallReversed

SpecArea == InitArea /\ [][NextArea]_vars


-----------------------------------------------------------------------------
(* The call made twice, on one input and then on a second: after the       *)
(* first call has returned its specification, the argument and the result  *)
(* are kept and the call starts again on another input.                    *)

\* The inputs of the two calls: a base population whose test samples are
\* where the reference's are, or to one side of them, and at most one free
\* sample.
PairInputs ==
    { sd \in Inputs :
        /\ sd.base.shift \in {"same", "oblique"}
        /\ Len(sd.extras) <= 1 }

\* The second input next to sd: the same base population up to its hole, or
\* no base population on either side, with any free sample.
Variations(sd) ==
    { o \in PairInputs :
        \/ o.base.layout = "none"
        \/ sd.base.layout = "none"
        \/ [o.base EXCEPT !.hole = -1] = [sd.base EXCEPT !.hole = -1] }

InitPair ==
    /\ pc = "start"
    /\ sd_test \in PairInputs
    /\ additional_data = FALSE
    /\ specification = Unbound
    /\ bins = Unbound
    /\ averages_test = Unbound
    /\ averages_reference = Unbound
    /\ R_g = Unbound
    /\ R_fs = Unbound
    /\ average_norms = Unbound
    /\ R_cs = Unbound
    /\ R_hs = Unbound
    /\ result = Unbound
    /\ polygon = Unbound
    /\ called = {}
    /\ area_forward = Unbound
    /\ area_reversed = Unbound
    /\ sd_other = Unbound
    /\ local_other = Unbound
    /\ LUT = Unbound
    /\ decimals = 0
    /\ cube_file = Unbound
    /\ LUT_read = Unbound

\* The first call has returned a specification: the next call starts.
CallAgain ==
    /\ pc = "done"
    /\ additional_data
    /\ called = {}
    /\ sd_other' = sd_test
    /\ local_other' = result
    /\ called' = {"first"}
    /\ sd_test' \in Variations(sd_test)
    /\ pc' = "start"
    /\ additional_data' = FALSE
    /\ specification' = Unbound
    /\ bins' = Unbound
    /\ averages_test' = Unbound
    /\ averages_reference' = Unbound
    /\ R_g' = Unbound
    /\ R_fs' = Unbound
    /\ average_norms' = Unbound
    /\ R_cs' = Unbound
    /\ R_hs' = Unbound
    /\ result' = Unbound
    /\ UNCHANGED << polygon, area_forward, area_reversed, cube >>

NextPair == Next \/ CallAgain

SpecPair == InitPair /\ [][NextPair]_vars


-----------------------------------------------------------------------------
(* Iridas .cube files.  A string is a sequence of characters, a file is    *)
(* the string written to it.  Numbers are the exact rationals of the       *)
(* float section; the values taken are dyadic, so that they are float64    *)
(* values and '{:0.nf}' rounds them as the model does.                     *)

\* str.strip, str.split: the characters Python takes for whitespace.
IsSpace(c) == c \in {" ", "\t", "\n"}

RECURSIVE LStrip(_)
LStrip(s) == IF s = << >> \/ ~IsSpace(Head(s)) THEN s ELSE LStrip(Tail(s))

RECURSIVE RStrip(_)
RStrip(s) ==
    IF s = << >> \/ ~IsSpace(s[Len(s)]) THEN s
    ELSE RStrip(SubSeq(s, 1, Len(s) - 1))

\* s.strip()
Strip(s) == RStrip(LStrip(s))

\* s.split(): the maximal runs of characters that are not whitespace; cur is
\* the run being read.
RECURSIVE SplitFrom(_, _)
SplitFrom(s, cur) ==
    IF s = << >> THEN (IF cur = << >> THEN << >> ELSE << cur >>)
    ELSE IF IsSpace(Head(s))
         THEN (IF cur = << >> THEN << >> ELSE << cur >>) \o SplitFrom(Tail(s), << >>)
    ELSE SplitFrom(Tail(s), Append(cur, Head(s)))

Split(s) == SplitFrom(s, << >>)

\* ' '.join(tokens)
RECURSIVE Join(_)
Join(tokens) ==
    IF tokens = << >> THEN << >>
    ELSE IF Len(tokens) = 1 THEN tokens[1]
    ELSE tokens[1] \o << " " >> \o Join(Tail(tokens))

\* s[1:-1]
Inner(s) == SubSeq(s, 2, Len(s) - 1)

\* file.readlines(): the text cut after every newline; what follows the last
\* newline, if anything, is a line too.
ReadLines(text) ==
    LET ends == {j \in 1 .. Len(text) : text[j] = "\n"}
            \cup (IF text # << >> /\ text[Len(text)] # "\n"
                  THEN {Len(text)} ELSE {})
        end(m) == CHOOSE j \in ends : Cardinality({e \in ends : e <= j}) = m
    IN  [m \in 1 .. Cardinality(ends) |->
            SubSeq(text, IF m = 1 THEN 1 ELSE end(m - 1) + 1, end(m))]

RECURSIVE Concat(_)
Concat(strings) ==
    IF strings = << >> THEN << >> ELSE Head(strings) \o Concat(Tail(strings))

DigitChars == << "0", "1", "2", "3", "4", "5", "6", "7", "8", "9" >>

IsDigit(c) == \E k \in 1 .. Len(DigitChars) : DigitChars[k] = c

DigitOf(c) == (CHOOSE k \in 1 .. Len(DigitChars) : DigitChars[k] = c) - 1

RECURSIVE Pow10(_)
Pow10(k) == IF k = 0 THEN 1 ELSE 10 * Pow10(k - 1)

\* The decimal digits of n >= 0, at least width of them.
RECURSIVE Digits(_, _)
Digits(n, width) ==
    IF n < 10 /\ width <= 1 THEN << DigitChars[n + 1] >>
    ELSE Append(Digits(n \div 10, width - 1), DigitChars[(n % 10) + 1])

\* The value of a string of digits.
RECURSIVE ValueOf(_)
ValueOf(s) ==
    IF s = << >> THEN 0
    ELSE 10 * ValueOf(SubSeq(s, 1, Len(s) - 1)) + DigitOf(s[Len(s)])

\* num / den >= 0 rounded to the nearest integer, ties to even.
RoundHalfEven(num, den) ==
    LET q == num \div den
        rem == num % den
    IN  IF 2 * rem > den THEN q + 1
        ELSE IF 2 * rem = den THEN q + (q % 2)
        ELSE q

\* '{:0.{n}f}'.format(x) of a finite x.
FormatFloat(x, n) ==
    LET q == RoundHalfEven(Abs(x.n) * Pow10(n), x.d)
    IN  (IF x.n < 0 THEN << "-" >> ELSE << >>)
        \o Digits(q \div Pow10(n), 1)
        \o (IF n > 0 THEN << "." >> \o Digits(q % Pow10(n), n) ELSE << >>)

\* str(n) of an integer n >= 0.
FormatInt(n) == Digits(n, 1)

\* Whether float(token) is a number: an optional sign, digits, and an
\* optional point with digits behind it.
IsNumeral(token) ==
    LET body == IF token # << >> /\ Head(token) = "-" THEN Tail(token) ELSE token
    IN  /\ body # << >>
        /\ IsDigit(Head(body))
        /\ \A j \in 1 .. Len(body) : IsDigit(body[j]) \/ body[j] = "."
        /\ Cardinality({j \in 1 .. Len(body) : body[j] = "."}) <= 1

\* DEFAULT_FLOAT_DTYPE(token) of a numeral.
ParseFloat(token) ==
    LET negative == Head(token) = "-"
        body == IF negative THEN Tail(token) ELSE token
        points == {j \in 1 .. Len(body) : body[j] = "."}
        point == IF points = {} THEN Len(body) + 1 ELSE CHOOSE j \in points : TRUE
        whole == SubSeq(body, 1, point - 1)
        fraction == SubSeq(body, point + 1, Len(body))
        magnitude == ValueOf(whole) * Pow10(Len(fraction)) + ValueOf(fraction)
    IN  Rat(IF negative THEN -magnitude ELSE magnitude, Pow10(Len(fraction)))

\* DEFAULT_INT_DTYPE(token) of a string of digits.
ParseInt(token) == ValueOf(token)

KwTitle == << "T", "I", "T", "L", "E" >>

KwDomainMin == << "D", "O", "M", "A", "I", "N", "_", "M", "I", "N" >>

KwDomainMax == << "D", "O", "M", "A", "I", "N", "_", "M", "A", "X" >>

KwSize1D == << "L", "U", "T", "_", "1", "D", "_", "S", "I", "Z", "E" >>

KwSize3D == << "L", "U", "T", "_", "3", "D", "_", "S", "I", "Z", "E" >>

\* The path written to and read from.
path == << "m", "y", "_", "l", "u", "t", ".", "c", "u", "b", "e" >>

\* Line 102: the file name without its extension, '_', '-' and '.' turned
\* into spaces.
DefaultTitle(p) ==
    LET dots == {j \in 1 .. Len(p) : p[j] = "."}
        stem == IF dots = {} THEN p
                ELSE SubSeq(p, 1, (CHOOSE j \in dots : \A k \in dots : k <= j) - 1)
    IN  [j \in 1 .. Len(stem) |->
            IF stem[j] \in {"_", "-", "."} THEN " " ELSE stem[j]]

\* Line 253 and line 103.
default_domain ==
    ArrayOf(<< ArrayOf(<< Float(0), Float(0), Float(0) >>),
               ArrayOf(<< Float(1), Float(1), Float(1) >>) >>)

\* LUT.size: the length of the table along its first axis.
SizeOf(lut) == ALen(lut.table)

\* Line 228.
is_2D(lut) == lut.class = "LUT2D"

\* Lines 236-241.
_format_array(array, n) ==
    FormatFloat(array[0], n) \o << " " >> \o FormatFloat(array[1], n)
        \o << " " >> \o FormatFloat(array[2], n)

\* Lines 109-114.
_parse_array(array) == ArrayOf([j \in 1 .. Len(array) |-> ParseFloat(array[j])])

\* The rows of a LUT3D with the last component index changing most rapidly:
\* reshape((-1, 3)) in C order.
RowsOfRowMajor(lut) ==
    IF is_2D(lut) THEN lut.table
    ELSE LET size == SizeOf(lut)
         IN  [row \in 0 .. (size * size * size - 1) |->
                lut.table[row \div (size * size)][(row \div size) % size][row % size]]

\* Lines 260-263: the rows of the table; of a LUT3D in Fortran order, the
\* first component index changing most rapidly.
RowsOf(lut) ==
    IF is_2D(lut) THEN lut.table
    ELSE LET size == SizeOf(lut)
         IN  [row \in 0 .. (size * size * size - 1) |->
                lut.table[row % size][(row \div size) % size][row \div (size * size)]]

\* Lines 230-234: the assertions on the size.
SizeAccepted(lut) ==
    IF is_2D(lut) THEN 2 <= SizeOf(lut) /\ SizeOf(lut) <= 65536
    ELSE 2 <= SizeOf(lut) /\ SizeOf(lut) <= 256

\* Lines 243-266: the text written for a LUT2D or LUT3D of accepted size.
write_LUT_IridasCube(lut, n) ==
    LET rows == RowsOf(lut)
    IN  KwTitle \o << " ", "\"" >> \o lut.name \o << "\"", "\n" >>
        \o Concat([j \in 1 .. Len(lut.comments) |->
                      << "#", " " >> \o lut.comments[j] \o << "\n" >>])
        \o (IF is_2D(lut) THEN KwSize1D ELSE KwSize3D)
        \o << " " >> \o FormatInt(ALen(lut.table)) \o << "\n" >>
        \o (IF lut.domain # default_domain
            THEN KwDomainMin \o << " " >> \o _format_array(lut.domain[0], n)
                     \o << "\n" >>
                 \o KwDomainMax \o << " " >> \o _format_array(lut.domain[1], n)
                     \o << "\n" >>
            ELSE << >>)
        \o Concat([j \in 1 .. ALen(rows) |->
                      _format_array(rows[j - 1], n) \o << "\n" >>])

\* Lines 102-107: the reader's locals before the first line.
ReaderStart(p) ==
    [title |-> DefaultTitle(p),
     domain_min |-> default_domain[0],
     domain_max |-> default_domain[1],
     dimensions |-> 3,
     size |-> 2,
     table |-> << >>,
     comments |-> << >>,
     raised |-> FALSE]

\* Lines 119-142: one line of the file.
ReaderStep(st, raw) ==
    LET line == Strip(raw)
        tokens == Split(line)
        numeric == \A j \in 2 .. Len(tokens) : IsNumeral(tokens[j])
    IN  IF st.raised \/ Len(line) = 0 THEN st
        ELSE IF Head(line) = "#"
             THEN [st EXCEPT !.comments = Append(@, Strip(Tail(line)))]
        ELSE IF tokens[1] = KwTitle
             THEN [st EXCEPT !.title = Inner(Join(Tail(tokens)))]
        ELSE IF tokens[1] = KwDomainMin
             THEN IF numeric
                  THEN [st EXCEPT !.domain_min = _parse_array(Tail(tokens))]
                  ELSE [st EXCEPT !.raised = TRUE]
        ELSE IF tokens[1] = KwDomainMax
             THEN IF numeric
                  THEN [st EXCEPT !.domain_max = _parse_array(Tail(tokens))]
                  ELSE [st EXCEPT !.raised = TRUE]
        ELSE IF tokens[1] = KwSize1D
             THEN IF Len(tokens) >= 2 /\ \A j \in 1 .. Len(tokens[2]) : IsDigit(tokens[2][j])
                  THEN [st EXCEPT !.dimensions = 2, !.size = ParseInt(tokens[2])]
                  ELSE [st EXCEPT !.raised = TRUE]
        ELSE IF tokens[1] = KwSize3D
             THEN IF Len(tokens) >= 2 /\ \A j \in 1 .. Len(tokens[2]) : IsDigit(tokens[2][j])
                  THEN [st EXCEPT !.dimensions = 3, !.size = ParseInt(tokens[2])]
                  ELSE [st EXCEPT !.raised = TRUE]
        ELSE IF numeric /\ IsNumeral(tokens[1])
             THEN [st EXCEPT !.table = Append(@, _parse_array(tokens))]
        ELSE [st EXCEPT !.raised = TRUE]

RECURSIVE ReaderLoop(_, _)
ReaderLoop(st, lines) ==
    IF lines = << >> THEN st
    ELSE ReaderLoop(ReaderStep(st, Head(lines)), Tail(lines))

\* The value standing for an exception leaving the reader.
Raised == [class |-> "raised"]

\* Lines 102-161: the LUT read from the text of the file at p.
read_LUT_IridasCube(p, text) ==
    LET st == ReaderLoop(ReaderStart(p), ReadLines(text))
        table == ArrayOf(st.table)
        domain == ArrayOf(<< st.domain_min, st.domain_max >>)
        size == st.size
    IN  IF st.raised THEN Raised
        ELSE IF st.dimensions = 2
             THEN [class |-> "LUT2D", table |-> table, name |-> st.title,
                   domain |-> domain, comments |-> st.comments]
        ELSE IF ALen(table) # size * size * size THEN Raised
        ELSE [class |-> "LUT3D",
              table |-> [i \in 0 .. (size - 1) |->
                          [j \in 0 .. (size - 1) |->
                            [k \in 0 .. (size - 1) |->
                                table[i + size * j + size * size * k]]]],
              name |-> st.title, domain |-> domain, comments |-> st.comments]

(* The LUTs written.                                                       *)

MaxSize == 2        \* tables of size 1 .. MaxSize

MaxDecimals == 2    \* decimals 0 .. MaxDecimals

MaxText == 2        \* comments of up to MaxText characters, names of one more

DefaultDecimals == 7

\* The strings of up to m characters from a letter, a space and a tab.
Texts(m) == UNION { [1 .. len -> {"a", " ", "\t"}] : len \in 0 .. m }

\* Entry c of row m of a table: eighths, of both signs.
TableEntry(seed, m, c) ==
    Rat((7 * m + 3 * c + seed) * (IF m % 2 = 0 THEN 1 ELSE -1), 8)

Table2D(size, seed) ==
    [m \in 0 .. (size - 1) |-> [c \in 0 .. 2 |-> TableEntry(seed, m, c)]]

Table3D(size, seed) ==
    [i \in 0 .. (size - 1) |->
      [j \in 0 .. (size - 1) |->
        [k \in 0 .. (size - 1) |->
          [c \in 0 .. 2 |-> TableEntry(seed, (i * size + j) * size + k, c)]]]]

Seeds == {0, 4}

Domains ==
    { default_domain,
      ArrayOf(<< ArrayOf(<< Float(0), Float(0), Float(0) >>),
                 ArrayOf(<< Float(1), Float(2), Float(3) >>) >>),
      ArrayOf(<< ArrayOf(<< Rat(-1, 8), Rat(-1, 4), Rat(-1, 2) >>),
                 ArrayOf(<< Rat(3, 2), Float(3), Float(6) >>) >>),
      ArrayOf(<< ArrayOf(<< Float(0), Float(0), Float(0) >>),
                 ArrayOf(<< Rat(9, 8), Float(1), Float(1) >>) >>) }

\* LUTs of class cls that differ in their numbers: size, table and domain.
NumberLUTs(cls) ==
    { [class |-> cls,
       table |-> IF cls = "LUT2D" THEN Table2D(size, seed) ELSE Table3D(size, seed),
       name |-> << "a", " ", "b" >>,
       domain |-> domain,
       comments |-> << << "a", " ", " ", "b" >>, << "c" >> >>] :
        size \in 1 .. MaxSize, seed \in Seeds, domain \in Domains }

\* LUTs that differ in their text: the name and up to two comments.
TextLUTs ==
    { [class |-> "LUT2D",
       table |-> Table2D(2, 0),
       name |-> name,
       domain |-> default_domain,
       comments |-> comments] :
        name \in Texts(MaxText + 1),
        comments \in {<< >>} \cup {<< c >> : c \in Texts(MaxText)}
                            \cup {<< c, << "a" >> >> : c \in Texts(MaxText)} }

InitCube ==
    /\ pc = "write"
    /\ sd_test = Unbound
    /\ additional_data = FALSE
    /\ specification = Unbound
    /\ bins = Unbound
    /\ averages_test = Unbound
    /\ averages_reference = Unbound
    /\ R_g = Unbound
    /\ R_fs = Unbound
    /\ average_norms = Unbound
    /\ R_cs = Unbound
    /\ R_hs = Unbound
    /\ result = Unbound
    /\ polygon = Unbound
    /\ called = {}
    /\ area_forward = Unbound
    /\ area_reversed = Unbound
    /\ sd_other = Unbound
    /\ local_other = Unbound
    /\ \/ LUT \in NumberLUTs("LUT2D") /\ decimals \in 0 .. MaxDecimals
       \/ LUT \in NumberLUTs("LUT3D") /\ decimals \in 0 .. MaxDecimals
       \/ LUT \in TextLUTs /\ decimals = DefaultDecimals
    /\ cube_file = Unbound
    /\ LUT_read = Unbound

\* write_LUT_IridasCube(LUT, path, decimals): an assertion of lines 230-234
\* fails before the file is opened, or the file is written.
WriteCube ==
    /\ pc = "write"
    /\ IF SizeAccepted(LUT)
       THEN /\ cube_file' = write_LUT_IridasCube(LUT, decimals)
            /\ pc' = "read"
       ELSE /\ pc' = "AssertionError"
            /\ UNCHANGED cube_file
    /\ UNCHANGED << sd_test, additional_data, specification, bins,
                    averages_test, averages_reference, R_g, R_fs, average_norms,
                    R_cs, R_hs, result, polygon, called, area_forward,
                    area_reversed, pair, LUT, decimals, LUT_read >>

\* read_LUT_IridasCube(path) of the file written.
ReadCube ==
    /\ pc = "read"
    /\ LUT_read' = read_LUT_IridasCube(path, cube_file)
    /\ pc' = "read back"
    /\ UNCHANGED << sd_test, additional_data, specification, bins,
                    averages_test, averages_reference, R_g, R_fs, average_norms,
                    R_cs, R_hs, result, polygon, called, area_forward,
                    area_reversed, pair, LUT, decimals, cube_file >>

NextCube == WriteCube \/ ReadCube

SpecCube == InitCube /\ [][NextCube]_vars


-----------------------------------------------------------------------------
(* Properties.                                                             *)

\* The call was made with additional_data and has passed the named stage.
Binned == additional_data /\ pc \notin {"start", "bins"}

Averaged == additional_data /\ pc \notin {"start", "bins", "averages"}

Gauged == additional_data /\ pc \notin {"start", "bins", "averages", "gamut"}

Shifted == additional_data /\ pc \in {"return", "done"}

Returned == additional_data /\ pc = "done"

\* The sample indices 0 .. N-1 and the reference hue angle of sample k, as
\* the base computation gave them.
SampleIndices == DOMAIN specification.colorimetry_data[1]

ReferenceHue(k) == specification.colorimetry_data[1][k].JMh[2]

\* h in [0, 360).
HueInRange(h) == IsFinite(h) /\ 0 <= h.n /\ h.n < 360 * h.d

\* floor(h / 22.5) of a rational h, in integers.
HueQuotient(h) == (2 * h.n) \div (45 * h.d)

\* How often index k occurs in bin b.
Occurrences(b, k) == Cardinality({j \in DOMAIN bins[b] : bins[b][j] = k})

\* C1: when every reference hue angle lies in [0, 360), the 16 bins
\* partition the sample indices 0 .. N-1: each index occurs exactly once, in
\* bin floor(hue / 22.5), and in no other bin, and the bins hold nothing else.
C1_BinsPartition ==
    (Binned /\ \A k \in SampleIndices : HueInRange(ReferenceHue(k)))
    => /\ DOMAIN bins = 0 .. 15
       /\ \A b \in 0 .. 15 : \A j \in DOMAIN bins[b] : bins[b][j] \in SampleIndices
       /\ \A k \in SampleIndices : \A b \in 0 .. 15 :
            Occurrences(b, k) = IF b = HueQuotient(ReferenceHue(k)) THEN 1 ELSE 0

\* Reached: 18 samples in range, one on the boundary 22.5 sharing bin 1 with
\* the base sample, one at 359.5 sharing bin 15.
C1_Witness ==
    /\ pc = "done" /\ additional_data
    /\ \A k \in SampleIndices : HueInRange(ReferenceHue(k))
    /\ ALen(bins[1]) = 2 /\ ALen(bins[15]) = 2 /\ ALen(bins[0]) = 1
    /\ \E k \in SampleIndices : ReferenceHue(k) = BinWidth

\* C2: without additional_data the call returns the base computation's
\* scalar and runs no stage of the pipeline (no local of it is ever bound);
\* with additional_data it returns the specification holding the sixteen
\* fields, the pipeline's being the values the stages computed.
C2_FlagSelectsResult ==
    /\ ~additional_data =>
         /\ pc \in {"start", "done"}
         /\ specification = Unbound /\ bins = Unbound
         /\ averages_test = Unbound /\ averages_reference = Unbound
         /\ R_g = Unbound /\ R_fs = Unbound /\ average_norms = Unbound
         /\ R_cs = Unbound /\ R_hs = Unbound
         /\ pc = "done" => result = colour_fidelity_index_CIE2017(sd_test, FALSE)
    /\ Returned =>
         /\ DOMAIN result =
              {"name", "sd_test", "sd_reference", "R_f", "R_s", "CCT", "D_uv",
               "colorimetry_data", "R_g", "bins", "averages_test",
               "averages_reference", "average_norms", "R_fs", "R_cs", "R_hs"}
         /\ result.R_g = R_g /\ result.bins = bins
         /\ result.averages_test = averages_test
         /\ result.averages_reference = averages_reference
         /\ result.average_norms = average_norms
         /\ result.R_fs = R_fs /\ result.R_cs = R_cs /\ result.R_hs = R_hs
         /\ bins # Unbound /\ averages_test # Unbound /\ R_fs # Unbound
         /\ R_cs # Unbound /\ R_hs # Unbound /\ average_norms # Unbound

\* Reached: a call without additional_data has returned.
C2_Witness ==
    /\ pc = "done" /\ ~additional_data
    /\ result = colour_fidelity_index_CIE2017(sd_test, FALSE)
    /\ bins = Unbound

\* The test and the reference bin averages are equal, point by point.
AveragesEqual ==
    \A i \in 0 .. 15 : \A c \in 0 .. 1 :
        FEq(averages_test[i][c], averages_reference[i][c])

ReferenceAreaNonZero ==
    LET area == averages_area(averages_reference)
    IN  IsFinite(area) /\ area.n # 0

\* C3 as stated: equal bin averages give a gamut index of 100.
C3_EqualAveragesGive100 ==
    (Gauged /\ AveragesEqual) => FEq(R_g, Float(100))

\* C3, amended: equal bin averages whose polygon has a non-zero area give a
\* gamut index of 100.
C3_EqualAveragesNonZeroAreaGive100 ==
    (Gauged /\ AveragesEqual /\ ReferenceAreaNonZero) => FEq(R_g, Float(100))

\* Reached: equal averages around a polygon of non-zero area, two samples
\* in one bin.
C3_Witness ==
    /\ Gauged /\ AveragesEqual /\ ReferenceAreaNonZero
    /\ FEq(R_g, Float(100))
    /\ \E b \in 0 .. 15 : ALen(bins[b]) = 2


FAbs(x) == IF IsNaN(x) THEN NaN ELSE [x EXCEPT !.n = Abs(x.n)]

\* delta = averages_test[i] - averages_reference[i], its components along
\* the bisector (cos, sin) and along (-sin, cos), and its length.
DeltaA(i) == FSub(averages_test[i][0], averages_reference[i][0])

DeltaB(i) == FSub(averages_test[i][1], averages_reference[i][1])

RadialComponent(i) ==
    FAdd(FMul(DeltaA(i), cosines[i]), FMul(DeltaB(i), sines[i]))

TangentialComponent(i) ==
    FAdd(FMul(FNeg(DeltaA(i)), sines[i]), FMul(DeltaB(i), cosines[i]))

DeltaLength(i) ==
    FSqrt(FAdd(FMul(DeltaA(i), DeltaA(i)), FMul(DeltaB(i), DeltaB(i))))

PurelyRadial(i) == IsZero(TangentialComponent(i))

PurelyTangential(i) == IsZero(RadialComponent(i))

NormNonZero(i) == IsFinite(average_norms[i]) /\ average_norms[i].n # 0

\* C5 as stated: a purely radial delta gives R_hs[i] = 0 and
\* R_cs[i] = 100 * |delta| / norm; a purely tangential delta gives
\* R_cs[i] = 0 and R_hs[i] = |delta| / norm.  Stated for the bins whose
\* average_norms[i] is not zero, where the quotients are numbers.
C5_ShiftsOfPureDeltas ==
    Shifted =>
      \A i \in 0 .. 15 :
        NormNonZero(i) =>
          /\ PurelyRadial(i) =>
               /\ FEq(R_hs[i], Float(0))
               /\ FEq(R_cs[i],
                      FDiv(FMul(Float(100), DeltaLength(i)), average_norms[i]))
          /\ PurelyTangential(i) =>
               /\ FEq(R_cs[i], Float(0))
               /\ FEq(R_hs[i], FDiv(DeltaLength(i), average_norms[i]))

\* C5, amended: where average_norms[i] is not zero, a purely radial delta
\* gives R_hs[i] = 0 and |R_cs[i]| = 100 * |delta| / norm, R_cs[i] having the
\* sign of delta's component along (cos, sin); a purely tangential delta gives
\* R_cs[i] = 0 and |R_hs[i]| = |delta| / norm, R_hs[i] having the sign of
\* delta's component along (-sin, cos).
C5_SignedShiftsOfPureDeltas ==
    Shifted =>
      \A i \in 0 .. 15 :
        NormNonZero(i) =>
          /\ PurelyRadial(i) =>
               /\ FEq(R_hs[i], Float(0))
               /\ FEq(FAbs(R_cs[i]),
                      FDiv(FMul(Float(100), DeltaLength(i)), average_norms[i]))
               /\ Sign(R_cs[i].n) = Sign(RadialComponent(i).n)
          /\ PurelyTangential(i) =>
               /\ FEq(R_cs[i], Float(0))
               /\ FEq(FAbs(R_hs[i]), FDiv(DeltaLength(i), average_norms[i]))
               /\ Sign(R_hs[i].n) = Sign(TangentialComponent(i).n)

\* Reached: a bin whose delta is purely radial and points inwards (negative
\* chroma shift), with a reference norm that is not rational, and a bin
\* whose non-zero delta is purely radial with a rational norm.
C5_Witness ==
    /\ Shifted
    /\ \E i \in 0 .. 15 :
         /\ PurelyRadial(i) /\ NormNonZero(i) /\ average_norms[i].r # 1
         /\ R_cs[i].n < 0 /\ FEq(R_hs[i], Float(0))
    /\ \E i \in 0 .. 15 :
         /\ PurelyRadial(i) /\ NormNonZero(i) /\ average_norms[i].r = 1
         /\ R_cs[i].n < 0

\* C6: a hue bin without member samples gets NaN, not a number, in both
\* coordinates of its averages_test and averages_reference entries, in the
\* locals and in the returned specification.
C6_EmptyBinIsFlagged ==
    /\ Averaged =>
         \A i \in 0 .. 15 : ALen(bins[i]) = 0 =>
           \A c \in 0 .. 1 :
             IsNaN(averages_test[i][c]) /\ IsNaN(averages_reference[i][c])
    /\ Returned =>
         \A i \in 0 .. 15 : ALen(result.bins[i]) = 0 =>
           \A c \in 0 .. 1 :
             /\ IsNaN(result.averages_test[i][c])
             /\ IsNaN(result.averages_reference[i][c])

\* Reached: a returned specification in which bin 0 alone is empty.
C6_Witness ==
    /\ Returned
    /\ ALen(result.bins[0]) = 0
    /\ \A i \in 1 .. 15 : ALen(result.bins[i]) > 0
    /\ IsNaN(result.averages_test[0][0])
    /\ ~IsNaN(result.averages_test[1][0])

\* C7 as stated: with a reference hue angle outside [0, 360) the computation
\* fails instead of returning a result.
C7_OutOfRangeFails ==
    Returned => \A k \in SampleIndices : HueInRange(ReferenceHue(k))

\* C7, amended: a sample whose reference hue angle lies outside [0, 360) is
\* not wrapped into a bin by modulo: it is in none of the 16 bins, and the
\* specification returned holds it in none.
C7_OutOfRangeSampleInNoBin ==
    /\ Binned =>
         \A k \in SampleIndices : ~HueInRange(ReferenceHue(k)) =>
           \A b \in 0 .. 15 : Occurrences(b, k) = 0
    /\ Returned =>
         \A k \in SampleIndices : ~HueInRange(ReferenceHue(k)) =>
           \A b \in 0 .. 15 : \A j \in DOMAIN result.bins[b] : result.bins[b][j] # k

\* Reached: a result returned for samples at 360 degrees and below 0.
C7_Witness ==
    /\ Returned
    /\ \E k \in SampleIndices : ReferenceHue(k) = Float(360)
    /\ \E k \in SampleIndices : ReferenceHue(k).n < 0
    /\ \A b \in 0 .. 15 : ALen(result.bins[b]) = 1


\* The samples of hue bin i, from the hue angles: those with
\* floor(hue / 22.5) = i.
Members(i) ==
    {k \in SampleIndices :
        IsFinite(ReferenceHue(k)) /\ HueQuotient(ReferenceHue(k)) = i}

RECURSIVE SumOver(_, _)
SumOver(S, f) ==
    IF S = {} THEN Float(0)
    ELSE LET k == CHOOSE x \in S : TRUE
         IN  FAdd(f[k], SumOver(S \ {k}, f))

MeanOver(S, f) == FDiv(SumOver(S, f), Float(Cardinality(S)))

\* C8: the specification returned has 16 bins and 16 entries in each of
\* R_fs, R_cs, R_hs, averages_test, averages_reference and average_norms,
\* whatever the samples, and entry i is that of hue bin i: bins[i] holds the
\* samples of bin i, the averages and R_fs[i] are means over them, and
\* average_norms[i], R_cs[i] and R_hs[i] come from the averages of bin i and
\* its bisector.
C8_SixteenEntriesByBin ==
    Returned =>
      /\ DOMAIN result.bins = 0 .. 15
      /\ DOMAIN result.R_fs = 0 .. 15
      /\ DOMAIN result.R_cs = 0 .. 15
      /\ DOMAIN result.R_hs = 0 .. 15
      /\ DOMAIN result.averages_test = 0 .. 15
      /\ DOMAIN result.averages_reference = 0 .. 15
      /\ DOMAIN result.average_norms = 0 .. 15
      /\ \A i \in 0 .. 15 :
           /\ {result.bins[i][j] : j \in DOMAIN result.bins[i]} = Members(i)
           /\ \A c \in 0 .. 1 :
                /\ result.averages_test[i][c] =
                     MeanOver(Members(i),
                        [k \in SampleIndices |->
                            specification.colorimetry_data[0][k].Jpapbp[c + 1]])
                /\ result.averages_reference[i][c] =
                     MeanOver(Members(i),
                        [k \in SampleIndices |->
                            specification.colorimetry_data[1][k].Jpapbp[c + 1]])
           /\ result.R_fs[i] =
                delta_E_to_R_f(MeanOver(Members(i), specification.delta_E_s))
           /\ result.average_norms[i] =
                FSqrt(FAdd(FMul(result.averages_reference[i][0],
                                result.averages_reference[i][0]),
                           FMul(result.averages_reference[i][1],
                                result.averages_reference[i][1])))
           /\ result.R_cs[i] =
                FDiv(FMul(Float(100), RadialComponent(i)), result.average_norms[i])
           /\ result.R_hs[i] =
                FDiv(TangentialComponent(i), result.average_norms[i])

\* Reached: a specification returned for a single sample, 15 bins empty.
C8_Witness ==
    /\ Returned
    /\ Cardinality(SampleIndices) = 1
    /\ Cardinality({i \in 0 .. 15 : ALen(result.bins[i]) = 0}) = 15
    /\ DOMAIN result.R_hs = 0 .. 15

\* C9: name, sd_reference, R_f, R_s, CCT, D_uv and colorimetry_data of the
\* specification returned are the base computation's, sd_test is the
\* argument, and R_f is the scalar the base computation returns, which is
\* what the call without additional_data returns.
C9_PassThrough ==
    Returned =>
      LET base == colour_fidelity_index_CIE2017(sd_test, TRUE)
      IN  /\ result.name = base.name
          /\ result.sd_reference = base.sd_reference
          /\ result.R_f = base.R_f
          /\ result.R_s = base.R_s
          /\ result.CCT = base.CCT
          /\ result.D_uv = base.D_uv
          /\ result.colorimetry_data = base.colorimetry_data
          /\ DOMAIN result.sd_test = DOMAIN sd_test
          /\ result.sd_test = sd_test
          /\ result.R_f = colour_fidelity_index_CIE2017(sd_test, FALSE)

\* Reached: a specification returned whose R_f is a number and differs from
\* the local fidelity of some bin.
C9_Witness ==
    /\ Returned
    /\ result.sd_test = sd_test
    /\ IsFinite(result.R_f.R_f_of)
    /\ \E i \in 0 .. 15 : result.R_fs[i] # result.R_f

Cross(u, v) == FSub(FMul(u[0], v[1]), FMul(u[1], v[0]))

\* The shoelace terms of the edges i -> i+1 for i < m.
RECURSIVE OpenShoelace(_, _)
OpenShoelace(P, m) ==
    IF m = 0 THEN Float(0)
    ELSE FAdd(OpenShoelace(P, m - 1), FDiv(Cross(P[m - 1], P[m]), Float(2)))

\* The shoelace sum: the edges 0 -> 1, ..., N-2 -> N-1 and the closing edge
\* N-1 -> 0.
Shoelace(P) ==
    FAdd(OpenShoelace(P, ALen(P) - 1),
         FDiv(Cross(P[ALen(P) - 1], P[0]), Float(2)))

\* C10: averages_area of the test and of the reference averages is the
\* shoelace sum with its closing term, and R_g is 100 times their ratio when
\* the reference area is not zero.
C10_ShoelaceAndGamutIndex ==
    Gauged =>
      LET test == Shoelace(averages_test)
          reference == Shoelace(averages_reference)
      IN  /\ averages_area(averages_test) = test
          /\ averages_area(averages_reference) = reference
          /\ (IsFinite(reference) /\ reference.n # 0)
             => R_g = FMul(Float(100), FDiv(test, reference))

\* Reached: a gamut index other than 100 over a reference polygon of non-zero
\* area whose closing edge from bin 15 to bin 0 contributes to it.
C10_Witness ==
    /\ Gauged
    /\ IsFinite(R_g) /\ R_g # Float(100)
    /\ Cross(averages_reference[15], averages_reference[0]).n # 0
    /\ IsFinite(Shoelace(averages_reference))
    /\ Shoelace(averages_reference).n # 0


\* The samples of hue bin i in the upstream data spec, in order: the test and
\* reference a'b' and the colour difference of each.
BinData(spec, i) ==
    LET ks == SelectSeq([j \in 1 .. ALen(spec.delta_E_s) |-> j - 1],
                        LAMBDA k :
                            LET h == spec.colorimetry_data[1][k].JMh[2]
                            IN  IsFinite(h) /\ HueQuotient(h) = i)
    IN  [j \in 1 .. Len(ks) |->
            [test |-> Tail1(spec.colorimetry_data[0][ks[j]].Jpapbp),
             reference |-> Tail1(spec.colorimetry_data[1][ks[j]].Jpapbp),
             delta_E |-> spec.delta_E_s[ks[j]]]]

\* The second call has returned its specification.
BothCalled == Returned /\ called = {"first"}

\* The six per-bin results of a call at bin i.
LocalAt(local, i) ==
    << local.averages_test[i], local.averages_reference[i],
       local.average_norms[i], local.R_fs[i], local.R_cs[i], local.R_hs[i] >>

\* C11: there are no cross-bin dependencies.  When the calls on two inputs
\* have both returned and the inputs agree on the samples of hue bin i (the
\* same samples with the same test and reference a'b' and colour
\* differences), then averages_test[i], averages_reference[i],
\* average_norms[i], R_fs[i], R_cs[i] and R_hs[i] are the same values in
\* both results (not-a-number where the other has not-a-number), whatever
\* the other bins hold.
C11_NoCrossBinDependencies ==
    BothCalled =>
      LET other == colour_fidelity_index_CIE2017(sd_other, TRUE)
      IN  \A i \in BinIndices :
            BinData(specification, i) = BinData(other, i) =>
              LocalAt(result, i) = LocalAt(local_other, i)

\* Two different inputs agree on a bin of two samples whose six results are
\* numbers, while another bin is empty in one input and not in the other.
C11_Witness ==
    /\ BothCalled
    /\ sd_test # sd_other
    /\ LET other == colour_fidelity_index_CIE2017(sd_other, TRUE)
       IN  /\ \E i \in BinIndices :
                 /\ BinData(specification, i) = BinData(other, i)
                 /\ Len(BinData(other, i)) = 2
                 /\ IsFinite(result.R_cs[i]) /\ result.R_cs[i].n # 0
                 /\ IsFinite(result.R_hs[i])
           /\ \E j \in BinIndices :
                 /\ Len(BinData(specification, j)) = 0
                 /\ Len(BinData(other, j)) > 0
                 /\ IsNaN(result.R_cs[j])
                 /\ ~IsNaN(local_other.R_cs[j])

ReadBack == pc = "read back"

\* x to n decimals, ties to even.
Rounded(x, n) ==
    Rat(Sign(x.n) * RoundHalfEven(Abs(x.n) * Pow10(n), x.d), Pow10(n))

\* The table read holds, at every index of the table written, the entry
\* written there, to the decimals given.
TableRounded ==
    LET size == ALen(LUT.table)
        cells == 0 .. (size - 1)
    IN  /\ ALen(LUT_read.table) = size
        /\ IF LUT.class = "LUT2D"
           THEN \A m \in cells : \A c \in 0 .. 2 :
                    LUT_read.table[m][c] = Rounded(LUT.table[m][c], decimals)
           ELSE \A i \in cells : \A j \in cells : \A k \in cells :
                    \A c \in 0 .. 2 :
                        LUT_read.table[i][j][k][c]
                            = Rounded(LUT.table[i][j][k][c], decimals)

\* The domain written, to the decimals given.
DomainRounded ==
    [b \in 0 .. 1 |-> [c \in 0 .. 2 |-> Rounded(LUT.domain[b][c], decimals)]]

\* A string whose only whitespace is single spaces.
SingleSpaced(s) ==
    /\ \A j \in 1 .. Len(s) : s[j] \notin {"\t", "\n"}
    /\ \A j \in 1 .. (Len(s) - 1) : ~(s[j] = " " /\ s[j + 1] = " ")

\* A string on one line with no whitespace at either end.
Trimmed(s) ==
    /\ \A j \in 1 .. Len(s) : s[j] # "\n"
    /\ s # << >> => ~IsSpace(s[1]) /\ ~IsSpace(s[Len(s)])

=============================================================================
